---- MODULE Spec2Model ----
(***************************************************************************)
(* Model of the coordination core of sl-shared-assets.                     *)
(*                                                                         *)
(* ProcessingTracker (data_classes/processing_data.py) wraps one .yaml     *)
(* file that several processes share.  Every method takes the FileLock of  *)
(* the file, reloads the instance attributes from the file, runs its own   *)
(* logic on the attributes and, on some paths, dumps them back.            *)
(*                                                                         *)
(* Two specifications are given over the same state:                       *)
(*   Spec      every method call is one step (the call holds the lock from *)
(*             its first to its last statement);                           *)
(*   RaceSpec  every method call is five steps (acquire, load, decide,     *)
(*             save, release) and the calls of different processes         *)
(*             interleave.                                                 *)
(* The 10 s timeout of lock.acquire is a real-time bound: a caller that    *)
(* finds the lock taken is modelled as waiting until it is released.       *)
(***************************************************************************)
EXTENDS Integers, Sequences, FiniteSets, TLC

(* ------------------------------ bounds --------------------------------- *)

\* Processes (each holds its own ProcessingTracker instance on the one path).
MaxProcs == 2
\* Manager identifiers passed by callers: the sentinel and 1..MaxManager.
MaxManager == 2
\* Largest job_count passed to start; the smallest is -1 (start validates nothing).
MaxJobCount == 2
\* The job graph of a pipeline has stages 1..n for some n in 1..MaxStages.
MaxStages == 2
\* Every stage of the graph holds StageJobs jobs.
StageJobs == 2

(* ------------------------- program constants --------------------------- *)

\* _manager_id: int = -1
NoManager == -1
\* _job_count: int = 1
DefaultJobCount == 1
\* ProcessingStatus codes
RUNNING == 0
SUCCEEDED == 1
FAILED == 2
ABORTED == 3

Procs == 1..MaxProcs
ManagerIds == {NoManager} \cup (1..MaxManager)
JobCounts == (-1)..MaxJobCount

(* ------------------------------- state --------------------------------- *)

VARIABLES
    file_exists,   \* self.file_path.exists()
    file,          \* the attributes stored in the .yaml file (meaningful when file_exists)
    mem,           \* mem[p]: the attributes of process p's ProcessingTracker instance
    last,          \* Spec: the most recent call: who made it, whether the caller's
                   \* attributes were out of date, its outcome and its return value
    lock,          \* RaceSpec: the process holding the FileLock, 0 when free
    pc,            \* RaceSpec: pc[p], the position of process p inside its call
    plan,          \* RaceSpec: plan[p], the call process p makes (fixed at the start)
    res,           \* RaceSpec: res[p], the outcome of p's call once it has ended
    origin,        \* RaceSpec: the tracker attributes the race starts from
    lock_file_exists, \* SessionLock: whether the lock's .yaml file exists
    lock_file,     \* SessionLock: the _manager_id stored in the .yaml file
    lock_mem,      \* SessionLock: lock_mem[p], the _manager_id of p's instance
    lock_last,     \* LockSpec: the most recent SessionLock call and its outcome
    holders,       \* LockSpec: the ids whose acquire returned and that have not
                   \* released since (emptied by force_release)
    stages,        \* ProcessingPipeline: the jobs dictionary has the keys 1..stages
    keep_job_logs, \* ProcessingPipeline.keep_job_logs
    pipeline_manager, \* ProcessingPipeline.manager_id
    pipeline_status, \* ProcessingPipeline.pipeline_status
    pipeline_stage,  \* ProcessingPipeline._pipeline_stage
    submitted,     \* submitted[j]: how many times job j was passed to submit_job
    done,          \* the jobs for which the server's job_complete returns True
    polled,        \* the stages whose jobs were all reported complete to a call
    remote,        \* the attributes in the tracker file on the remote server
    local_dir,     \* whether the directory of the local tracker copy exists
    logs_removed,  \* whether the jobs' remote log directories were removed
    cycle,         \* PipelineSpec: what the most recent runtime_cycle call did
    tracker_files, \* ToolsSpec: tracker_files[k], the tracker file k of the session
    tools,         \* ToolsSpec: tools[p], the function process p runs and its position
    tool_last,     \* ToolsSpec: the most recent step of a function and its outcome
    path_file,     \* the content of working_directory_path.txt, NoPath when absent
    directories,   \* the directories that exist on the local machine
    credentials,   \* the directories that hold the two credentials .yaml files
    given,         \* the path passed to the most recent set_working_directory call
    got            \* the outcome of a get_working_directory call, NoGet once the
                   \* directories or the cache file have changed since

trackerVars == <<file_exists, file, mem>>
raceVars == <<lock, pc, plan, res, origin>>
sessionVars == <<lock_file_exists, lock_file, lock_mem, lock_last, holders>>
pipelineVars == <<stages, keep_job_logs, pipeline_manager, pipeline_status, pipeline_stage, submitted,
                  done, polled, remote, local_dir, logs_removed, cycle>>
toolsVars == <<tracker_files, tools, tool_last>>
filesystemVars == <<path_file, directories, credentials, given, got>>
nonTrackerVars == <<sessionVars, pipelineVars, toolsVars, filesystemVars>>
nonSessionVars == <<file_exists, file, mem, last, lock, pc, plan, res, origin, pipelineVars,
                    toolsVars, filesystemVars>>
nonPipelineVars == <<file_exists, file, mem, last, lock, pc, plan, res, origin, sessionVars,
                     toolsVars, filesystemVars>>
nonToolsVars == <<file_exists, file, mem, last, lock, pc, plan, res, origin, sessionVars,
                  pipelineVars, filesystemVars>>
nonFilesystemVars == <<file_exists, file, mem, last, lock, pc, plan, res, origin, sessionVars,
                       pipelineVars, toolsVars>>
vars == <<file_exists, file, mem, last, lock, pc, plan, res, origin,
          lock_file_exists, lock_file, lock_mem, lock_last, holders,
          stages, keep_job_logs, pipeline_manager, pipeline_status, pipeline_stage,
          submitted, done, polled, remote, local_dir, logs_removed, cycle,
          tracker_files, tools, tool_last, path_file, directories, credentials, given, got>>

\* The dataclass defaults of ProcessingTracker: the attributes of a new instance.
DefaultTracker ==
    [running |-> FALSE, manager_id |-> NoManager, complete |-> FALSE,
     encountered_error |-> FALSE, job_count |-> DefaultJobCount, completed_jobs |-> 0]

(* ----------------------- _load_state / _save_state --------------------- *)

\* _save_state: dumps the instance attributes t to the file.
SaveState(t) == [exists |-> TRUE, disk |-> t, attrs |-> t]

\* Variant of LoadState: an instance that trusts its own attributes once the file
\* exists, instead of copying the file.
LoadStateCached(ex, disk, t) ==
    IF ex THEN [exists |-> TRUE, disk |-> disk, attrs |-> t]
    ELSE SaveState(t)

\* _load_state: copies the file into the instance attributes; when the file is
\* absent, dumps the instance attributes as they are.
LoadState(ex, disk, t) ==
    IF ex THEN [exists |-> TRUE, disk |-> disk, attrs |-> disk]
    ELSE SaveState(t)

(* --------------------------- method bodies ----------------------------- *)
\* Each body maps the freshly loaded attributes t to the attributes after the
\* body, whether the body saves them, and whether it raises RuntimeError.

Outcome(t, save, raise) == [attrs |-> t, save |-> save, raise |-> raise]

\* Variant of StartBody: no check of the manager that holds a running pipeline.
StartBodyNoCheck(t, manager_id, job_count) ==
    IF t.running /\ manager_id = t.manager_id
    THEN Outcome(t, FALSE, FALSE)
    ELSE Outcome([running |-> TRUE, manager_id |-> manager_id, complete |-> FALSE,
                  encountered_error |-> FALSE, job_count |-> job_count,
                  completed_jobs |-> 0], TRUE, FALSE)

\* Variant of StartBody: the flags of the previous attempt are not cleared.
StartBodyKeepsFlags(t, manager_id, job_count) ==
    IF t.running /\ manager_id # t.manager_id
    THEN Outcome(t, FALSE, TRUE)
    ELSE IF t.running /\ manager_id = t.manager_id
    THEN Outcome(t, FALSE, FALSE)
    ELSE Outcome([t EXCEPT !.running = TRUE, !.manager_id = manager_id,
                           !.job_count = job_count, !.completed_jobs = 0],
                 TRUE, FALSE)

\* Variant of StartBody: a start by the owning manager begins the run again.
StartBodyRestart(t, manager_id, job_count) ==
    IF t.running /\ manager_id # t.manager_id
    THEN Outcome(t, FALSE, TRUE)
    ELSE Outcome([running |-> TRUE, manager_id |-> manager_id, complete |-> FALSE,
                  encountered_error |-> FALSE, job_count |-> job_count,
                  completed_jobs |-> 0], TRUE, FALSE)

StartBody(t, manager_id, job_count) ==
    IF t.running /\ manager_id # t.manager_id
    THEN Outcome(t, FALSE, TRUE)
    ELSE IF t.running /\ manager_id = t.manager_id
    THEN Outcome(t, FALSE, FALSE)
    ELSE Outcome([running |-> TRUE, manager_id |-> manager_id, complete |-> FALSE,
                  encountered_error |-> FALSE, job_count |-> job_count,
                  completed_jobs |-> 0], TRUE, FALSE)

\* Variant of ErrorBody: an error reported to a pipeline that is not running is
\* recorded all the same.
ErrorBodyWhenIdle(t, manager_id) ==
    IF t.running /\ manager_id # t.manager_id
    THEN Outcome(t, FALSE, TRUE)
    ELSE Outcome([t EXCEPT !.running = FALSE, !.manager_id = NoManager,
                           !.complete = FALSE, !.encountered_error = TRUE],
                 TRUE, FALSE)

\* Variant of ErrorBody: any manager may report the error of a running pipeline.
ErrorBodyAnyManager(t, manager_id) ==
    IF ~t.running
    THEN Outcome(t, FALSE, FALSE)
    ELSE Outcome([t EXCEPT !.running = FALSE, !.manager_id = NoManager,
                           !.complete = FALSE, !.encountered_error = TRUE],
                 TRUE, FALSE)

\* Variant of ErrorBody: the error is flagged but the pipeline is left running.
ErrorBodyStillRunning(t, manager_id) ==
    IF ~t.running
    THEN Outcome(t, FALSE, FALSE)
    ELSE IF manager_id # t.manager_id
    THEN Outcome(t, FALSE, TRUE)
    ELSE Outcome([t EXCEPT !.complete = FALSE, !.encountered_error = TRUE],
                 TRUE, FALSE)

ErrorBody(t, manager_id) ==
    IF ~t.running
    THEN Outcome(t, FALSE, FALSE)
    ELSE IF manager_id # t.manager_id
    THEN Outcome(t, FALSE, TRUE)
    ELSE Outcome([t EXCEPT !.running = FALSE, !.manager_id = NoManager,
                           !.complete = FALSE, !.encountered_error = TRUE],
                 TRUE, FALSE)

\* Variant of StopBody: the pipeline completes one report late (> for >=).
StopBodyLate(t, manager_id) ==
    IF ~t.running
    THEN Outcome(t, FALSE, FALSE)
    ELSE IF manager_id # t.manager_id
    THEN Outcome(t, FALSE, TRUE)
    ELSE LET u == [t EXCEPT !.completed_jobs = t.completed_jobs + 1] IN
         IF u.completed_jobs > u.job_count
         THEN Outcome([u EXCEPT !.running = FALSE, !.manager_id = NoManager,
                                !.complete = TRUE, !.encountered_error = FALSE],
                      TRUE, FALSE)
         ELSE Outcome(u, TRUE, FALSE)

StopBody(t, manager_id) ==
    IF ~t.running
    THEN Outcome(t, FALSE, FALSE)
    ELSE IF manager_id # t.manager_id
    THEN Outcome(t, FALSE, TRUE)
    ELSE LET u == [t EXCEPT !.completed_jobs = t.completed_jobs + 1] IN
         IF u.completed_jobs >= u.job_count
         THEN Outcome([u EXCEPT !.running = FALSE, !.manager_id = NoManager,
                                !.complete = TRUE, !.encountered_error = FALSE],
                      TRUE, FALSE)
         ELSE Outcome(u, TRUE, FALSE)

\* Variant of AbortBody: the flags and the owner are reset, the job counters kept.
AbortBodyKeepsCounters(t) ==
    Outcome([t EXCEPT !.running = FALSE, !.manager_id = NoManager,
                      !.complete = FALSE, !.encountered_error = FALSE], TRUE, FALSE)

AbortBody(t) ==
    Outcome([running |-> FALSE, manager_id |-> NoManager, completed_jobs |-> 0,
             job_count |-> DefaultJobCount, complete |-> FALSE,
             encountered_error |-> FALSE], TRUE, FALSE)

\* The three query properties: load, then return one attribute; nothing is saved.
QueryBody(t) == Outcome(t, FALSE, FALSE)

QueryValue(op, t) ==
    CASE op = "is_complete" -> t.complete
      [] op = "encountered_error" -> t.encountered_error
      [] op = "is_running" -> t.running

Queries == {"is_complete", "encountered_error", "is_running"}

\* The body of the method a call names.
Body(c, t) ==
    CASE c.op = "start" -> StartBody(t, c.manager_id, c.job_count)
      [] c.op = "error" -> ErrorBody(t, c.manager_id)
      [] c.op = "stop" -> StopBody(t, c.manager_id)
      [] c.op = "abort" -> AbortBody(t)
      [] c.op \in Queries -> QueryBody(t)

\* A call: the method and its arguments (0 where the method takes none).
Call(op, manager_id, job_count) ==
    [op |-> op, manager_id |-> manager_id, job_count |-> job_count]

NoCall == Call("none", 0, 0)

(* ------------------- Spec: one method call per step -------------------- *)

\* Spec drives the tracker through two instances on the same path, so that one
\* instance keeps attributes from before the other instance's writes.
Callers == {1, 2}

\* The effect of a whole call c on instance attributes t: load under the lock,
\* run the body, save if the body says so.
Run(ex, disk, t, c) ==
    LET l == LoadState(ex, disk, t)
        b == Body(c, l.attrs)
    IN [after |-> IF b.save THEN SaveState(b.attrs) ELSE [l EXCEPT !.attrs = b.attrs],
        raise |-> b.raise]

\* Process p makes call c.
Invoke(p, c) ==
    LET r == Run(file_exists, file, mem[p], c) IN
    /\ file_exists' = r.after.exists
    /\ file' = r.after.disk
    /\ mem' = [mem EXCEPT ![p] = r.after.attrs]
    /\ last' = [proc |-> p, call |-> c, stale |-> file_exists /\ mem[p] # file,
                outcome |-> IF r.raise THEN "RuntimeError" ELSE "returned",
                value |-> IF c.op \in Queries THEN QueryValue(c.op, r.after.attrs)
                          ELSE FALSE]

start(p, manager_id, job_count) ==
    /\ Invoke(p, Call("start", manager_id, job_count))
    /\ UNCHANGED <<raceVars, nonTrackerVars>>

error(p, manager_id) ==
    /\ Invoke(p, Call("error", manager_id, 0))
    /\ UNCHANGED <<raceVars, nonTrackerVars>>

stop(p, manager_id) ==
    /\ Invoke(p, Call("stop", manager_id, 0))
    /\ UNCHANGED <<raceVars, nonTrackerVars>>

abort(p) ==
    /\ Invoke(p, Call("abort", 0, 0))
    /\ UNCHANGED <<raceVars, nonTrackerVars>>

is_complete(p) ==
    /\ Invoke(p, Call("is_complete", 0, 0))
    /\ UNCHANGED <<raceVars, nonTrackerVars>>

encountered_error(p) ==
    /\ Invoke(p, Call("encountered_error", 0, 0))
    /\ UNCHANGED <<raceVars, nonTrackerVars>>

is_running(p) ==
    /\ Invoke(p, Call("is_running", 0, 0))
    /\ UNCHANGED <<raceVars, nonTrackerVars>>

\* After construction: no file yet, every instance holds the dataclass defaults.
(* ------------------------------ SessionLock ----------------------------- *)

\* The processes that hold a SessionLock instance on the same lock file.
LockUsers == {1, 2}

\* The outcome of a method body: the instance's _manager_id afterwards, whether
\* _save_state was called, and the error raised ("none" when it returns).
LockOutcome(owner, save, raise) == [owner |-> owner, save |-> save, raise |-> raise]

\* _save_state: the file holds the instance's _manager_id.
LockSaveState(owner) == [exists |-> TRUE, disk |-> owner, attr |-> owner]

\* _load_state: reads the file, or creates it from the instance's attribute.
LockLoadState(ex, disk, owner) ==
    IF ex THEN [exists |-> TRUE, disk |-> disk, attr |-> disk] ELSE LockSaveState(owner)

\* Variant of AcquireBody: the lock is taken whoever holds it.
AcquireBodySteal(owner, manager_id) == LockOutcome(manager_id, TRUE, "none")

\* acquire, after the load.
AcquireBody(owner, manager_id) ==
    IF owner # NoManager /\ owner # manager_id
    THEN LockOutcome(owner, FALSE, "RuntimeError")
    ELSE LockOutcome(manager_id, TRUE, "none")

\* release, after the load.
ReleaseBody(owner, manager_id) ==
    IF owner # manager_id
    THEN LockOutcome(owner, FALSE, "RuntimeError")
    ELSE LockOutcome(NoManager, TRUE, "none")

\* Variant of CheckOwnerBody: an unlocked session passes the check.
CheckOwnerBodyLenient(owner, manager_id) ==
    IF owner # manager_id /\ owner # NoManager
    THEN LockOutcome(owner, FALSE, "ValueError")
    ELSE LockOutcome(owner, FALSE, "none")

\* check_owner, after the load.
CheckOwnerBody(owner, manager_id) ==
    IF owner # manager_id
    THEN LockOutcome(owner, FALSE, "ValueError")
    ELSE LockOutcome(owner, FALSE, "none")

\* A whole SessionLock method call under the FileLock: the load, the body and
\* the save the body asks for.
LockBody(op, owner, manager_id) ==
    CASE op = "acquire" -> AcquireBody(owner, manager_id)
      [] op = "release" -> ReleaseBody(owner, manager_id)
      [] op = "check_owner" -> CheckOwnerBody(owner, manager_id)

LockRun(ex, disk, owner, op, manager_id) ==
    LET l == LockLoadState(ex, disk, owner)
        o == LockBody(op, l.attr, manager_id)
    IN  [after |-> IF o.save THEN LockSaveState(o.owner) ELSE [l EXCEPT !.attr = o.owner],
         raise |-> o.raise]

LockInvoke(p, op, manager_id, r) ==
    /\ lock_file_exists' = r.after.exists
    /\ lock_file' = r.after.disk
    /\ lock_mem' = [lock_mem EXCEPT ![p] = r.after.attr]
    /\ lock_last' = [proc |-> p, op |-> op, manager_id |-> manager_id, outcome |-> r.raise]
    /\ holders' = IF r.raise # "none" THEN holders
                  ELSE IF op = "acquire" THEN holders \cup {manager_id}
                  ELSE IF op = "release" THEN holders \ {manager_id}
                  ELSE IF op = "force_release" THEN {}
                  ELSE holders

acquire(p, manager_id) ==
    /\ LockInvoke(p, "acquire", manager_id,
                  LockRun(lock_file_exists, lock_file, lock_mem[p], "acquire", manager_id))
    /\ UNCHANGED nonSessionVars

release(p, manager_id) ==
    /\ LockInvoke(p, "release", manager_id,
                  LockRun(lock_file_exists, lock_file, lock_mem[p], "release", manager_id))
    /\ UNCHANGED nonSessionVars

\* force_release does not load: it sets the attribute to -1 and saves.
force_release(p) ==
    /\ LockInvoke(p, "force_release", NoManager,
                  [after |-> LockSaveState(NoManager), raise |-> "none"])
    /\ UNCHANGED nonSessionVars

check_owner(p, manager_id) ==
    /\ LockInvoke(p, "check_owner", manager_id,
                  LockRun(lock_file_exists, lock_file, lock_mem[p], "check_owner", manager_id))
    /\ UNCHANGED nonSessionVars

NoLockCall == [proc |-> 0, op |-> "none", manager_id |-> NoManager, outcome |-> "none"]

\* A lock nobody has touched: no file, every instance with the default -1.
SessionLockInit ==
    /\ lock_file_exists = FALSE
    /\ lock_file = NoManager
    /\ lock_mem = [p \in LockUsers |-> NoManager]
    /\ lock_last = NoLockCall
    /\ holders = {}

(* --------------------------- ProcessingPipeline ------------------------- *)

\* The jobs of the graph: job i of stage k.
StageNumbers == 1..MaxStages
AllJobs == StageNumbers \X (1..StageJobs)

\* self.jobs[k]; the dictionary has no key outside 1..stages.
JobsOfStage(k) == {j \in AllJobs : j[1] = k}

NoCycle ==
    [entry_stage |-> 0, entry_status |-> RUNNING, submits |-> {}, pulled |-> FALSE,
     snapshot |-> DefaultTracker, outcome |-> "none"]

\* A pipeline instance after construction with a graph of n stages: status
\* RUNNING, stage 0, local directory created by __post_init__, nothing submitted.
PipelineNew(n, keep, m) ==
    /\ stages = n
    /\ keep_job_logs = keep
    /\ pipeline_manager = m
    /\ pipeline_status = RUNNING
    /\ pipeline_stage = 0
    /\ submitted = [j \in AllJobs |-> 0]
    /\ done = {}
    /\ polled = {}
    /\ remote = DefaultTracker
    /\ local_dir = TRUE
    /\ logs_removed = FALSE
    /\ cycle = NoCycle

(* ------------------ prepare_session / archive_session ------------------- *)

\* The two tracker files the functions use, and the processes that run them.
TrackerNames == {"preparation", "archiving"}
ToolProcs == {1, 2}

NoTool == [fn |-> "none", manager_id |-> NoManager, pc |-> "idle"]
NoToolStep == [proc |-> 0, fn |-> "none", manager_id |-> NoManager, step |-> "none",
               outcome |-> "none"]

\* A session whose tracker files do not exist yet; no function is running.
ToolsIdle ==
    /\ tracker_files = [k \in TrackerNames |-> [exists |-> FALSE, disk |-> DefaultTracker]]
    /\ tools = [p \in ToolProcs |-> NoTool]
    /\ tool_last = NoToolStep

(* -------------------------- working directory -------------------------- *)

\* Directory paths as sequences of characters.  "a " is a name that ends with a
\* space; "a" is the name it becomes when the surrounding whitespace is dropped.
Paths == {<<"a">>, <<"a", " ">>, <<"b">>}
NoPath == <<>>
NoGet == [outcome |-> "none", path |-> NoPath]

\* A machine on which set_working_directory was never called: no cache file,
\* none of the directories made yet.
WorkingDirectoryUnset ==
    /\ path_file = NoPath
    /\ directories = {}
    /\ credentials = {}
    /\ given = NoPath
    /\ got = NoGet

TrackerInit ==
    /\ file_exists = FALSE
    /\ file = DefaultTracker
    /\ mem = [p \in Procs |-> DefaultTracker]

NoLast == [proc |-> 0, call |-> NoCall, stale |-> FALSE, outcome |-> "none", value |-> FALSE]

\* No tracker file yet, no call made, nobody inside a with block.
TrackerIdle ==
    /\ TrackerInit
    /\ last = NoLast
    /\ lock = 0
    /\ pc = [p \in Procs |-> "idle"]
    /\ plan = [p \in Procs |-> NoCall]
    /\ res = [p \in Procs |-> "none"]
    /\ origin = DefaultTracker

Init ==
    /\ TrackerIdle
    /\ SessionLockInit
    /\ ToolsIdle
    /\ WorkingDirectoryUnset
    /\ PipelineNew(1, FALSE, 1)

Next ==
    \/ \E p \in Callers, m \in ManagerIds, n \in JobCounts : start(p, m, n)
    \/ \E p \in Callers, m \in ManagerIds : error(p, m)
    \/ \E p \in Callers, m \in ManagerIds : stop(p, m)
    \/ \E p \in Callers : abort(p)
    \/ \E p \in Callers : is_complete(p)
    \/ \E p \in Callers : encountered_error(p)
    \/ \E p \in Callers : is_running(p)

Spec == Init /\ [][Next]_vars

(* ---------------- LockSpec: one SessionLock call per step --------------- *)

LockNext ==
    \/ \E p \in LockUsers, m \in ManagerIds : acquire(p, m)
    \/ \E p \in LockUsers, m \in ManagerIds : release(p, m)
    \/ \E p \in LockUsers : force_release(p)
    \/ \E p \in LockUsers, m \in ManagerIds : check_owner(p, m)

LockSpec == Init /\ [][LockNext]_vars

(* ------------- RemovalSpec: Spec plus removal of the file -------------- *)

\* The tracker file is removed from outside the class (the pipeline removes the
\* directory of its local tracker copy; a session's folders are deleted and
\* recreated).  The instances keep the attributes they hold.
remove_tracker_file ==
    /\ file_exists
    /\ file_exists' = FALSE
    /\ file' = DefaultTracker
    /\ last' = [NoLast EXCEPT !.call = Call("remove", 0, 0)]
    /\ UNCHANGED <<mem, raceVars, nonTrackerVars>>

RemovalNext == Next \/ remove_tracker_file

RemovalSpec == Init /\ [][RemovalNext]_vars

(* ---------------- RaceSpec: five steps per method call ----------------- *)
\* Every process makes at most one call, plan[p], through a new instance; the
\* calls interleave step by step.  The tracker file starts absent or holding
\* origin: the idle defaults, or what a start, a completed run or a failed run
\* leaves behind.

\* Variant of LockFree: every instance locks a file of its own, so the lock is
\* always free.
LockNotShared == TRUE

\* lock.acquire succeeds only while no other process holds the FileLock.
LockFree == lock = 0

\* The calls that race: the four mutating methods (start with its default job_count).
RaceCalls ==
    {Call("start", m, DefaultJobCount) : m \in ManagerIds}
    \cup {Call("stop", m, 0) : m \in ManagerIds}
    \cup {Call("error", m, 0) : m \in ManagerIds}
    \cup {Call("abort", 0, 0)}

\* The file left by start(m, n) on a new tracker, n jobs to report.
Started(m, n) == Run(FALSE, DefaultTracker, DefaultTracker, Call("start", m, n)).after.disk

\* The file left by the stop(m) that completes the run start(m, 1) opened.
Stopped(m) ==
    Run(TRUE, Started(m, DefaultJobCount), DefaultTracker, Call("stop", m, 0)).after.disk

\* The file left by error(m) in the run start(m, n) opened.
Failed(m, n) == Run(TRUE, Started(m, n), DefaultTracker, Call("error", m, 0)).after.disk

RaceInit ==
    /\ origin \in {DefaultTracker}
                  \cup {Started(m, n) : m \in ManagerIds, n \in 1..MaxProcs}
                  \cup {Stopped(m) : m \in ManagerIds}
                  \cup {Failed(m, n) : m \in ManagerIds, n \in 1..MaxProcs}
    /\ file = origin
    /\ file_exists \in BOOLEAN
    /\ (origin # DefaultTracker => file_exists)
    /\ mem = [p \in Procs |-> DefaultTracker]
    /\ plan \in [Procs -> RaceCalls \cup {NoCall}]
    /\ pc = [p \in Procs |-> IF plan[p] = NoCall THEN "idle" ELSE "acquire"]
    /\ res = [p \in Procs |-> "none"]
    /\ lock = 0
    /\ last = NoLast
    /\ SessionLockInit
    /\ ToolsIdle
    /\ WorkingDirectoryUnset
    /\ PipelineNew(1, FALSE, 1)

\* with lock.acquire(timeout=10.0):
Acquire(p) ==
    /\ pc[p] = "acquire"
    /\ LockFree
    /\ lock' = p
    /\ pc' = [pc EXCEPT ![p] = "load"]
    /\ UNCHANGED <<file_exists, file, mem, last, plan, res, origin, nonTrackerVars>>

\* self._load_state()
Load(p) ==
    /\ pc[p] = "load"
    /\ LET l == LoadState(file_exists, file, mem[p]) IN
       /\ file_exists' = l.exists
       /\ file' = l.disk
       /\ mem' = [mem EXCEPT ![p] = l.attrs]
    /\ pc' = [pc EXCEPT ![p] = "decide"]
    /\ UNCHANGED <<last, lock, plan, res, origin, nonTrackerVars>>

\* The method's own statements between the load and the save: they raise,
\* return, or update the instance attributes for the save that follows.
Decide(p) ==
    /\ pc[p] = "decide"
    /\ LET b == Body(plan[p], mem[p]) IN
       /\ mem' = [mem EXCEPT ![p] = b.attrs]
       /\ pc' = [pc EXCEPT ![p] = IF b.save THEN "save" ELSE "release"]
       /\ res' = [res EXCEPT ![p] = IF b.raise THEN "RuntimeError"
                                    ELSE IF b.save THEN "none" ELSE "returned"]
    /\ UNCHANGED <<file_exists, file, last, lock, plan, origin, nonTrackerVars>>

\* self._save_state()
Save(p) ==
    /\ pc[p] = "save"
    /\ LET s == SaveState(mem[p]) IN
       /\ file_exists' = s.exists
       /\ file' = s.disk
    /\ pc' = [pc EXCEPT ![p] = "release"]
    /\ res' = [res EXCEPT ![p] = "returned"]
    /\ UNCHANGED <<mem, last, lock, plan, origin, nonTrackerVars>>

\* Leaving the with block (by return, by exception or at its end) releases the lock.
Release(p) ==
    /\ pc[p] = "release"
    /\ lock' = IF lock = p THEN 0 ELSE lock
    /\ pc' = [pc EXCEPT ![p] = "done"]
    /\ UNCHANGED <<file_exists, file, mem, last, plan, res, origin, nonTrackerVars>>

RaceNext ==
    \/ \E p \in Procs : Acquire(p)
    \/ \E p \in Procs : Load(p)
    \/ \E p \in Procs : Decide(p)
    \/ \E p \in Procs : Save(p)
    \/ \E p \in Procs : Release(p)

RaceSpec == RaceInit /\ [][RaceNext]_vars

(* --------- PipelineSpec: runtime_cycle, the scheduler, the jobs --------- *)

\* _submit_jobs for a stage k of the graph: every job of jobs[k] is submitted.
\* Variant of SubmitJobs: the jobs of every stage up to k are submitted.
SubmitJobsUpTo(sub, k) ==
    [j \in AllJobs |-> IF j[1] <= k THEN sub[j] + 1 ELSE sub[j]]

SubmitJobs(sub, k) ==
    [j \in AllJobs |-> IF j \in JobsOfStage(k) THEN sub[j] + 1 ELSE sub[j]]

\* Variant of StageComplete: the stage is taken as complete without asking.
StageCompleteUnchecked(k, finished) == TRUE

\* for job, _ in self.jobs[k]: if not self.server.job_complete(job=job): return
StageComplete(k, finished) == JobsOfStage(k) \subseteq finished

\* Variant of TransferFailed: a failed pull marks the pipeline as failed.
TransferFailedMarksFailed(st) == [st EXCEPT !.status = FAILED]

\* server.pull_file raises: the exception leaves runtime_cycle before any
\* assignment that follows the pull.
TransferFailed(st) == st

\* What a call reports in cycle.
Cycle(st, submits, pulled, snap, outcome) ==
    [entry_stage |-> st.stage, entry_status |-> st.status, submits |-> submits,
     pulled |-> pulled, snapshot |-> IF pulled THEN snap ELSE DefaultTracker,
     outcome |-> outcome]

\* runtime_cycle on a pipeline with stages 1..n in state st.  snap is the
\* remote tracker file at the time of the pull, quick the jobs of stage 1 that
\* leave the scheduler between their submission and the poll of the same call,
\* pull_ok whether server.pull_file returns or raises.
RuntimeCycle(n, keep, st, snap, quick, pull_ok) ==
    LET first == st.stage = 0
        k == IF first THEN 1 ELSE st.stage
        subs == IF first THEN {1} ELSE {}
        entered == [st EXCEPT !.stage = k,
                              !.submitted = IF first THEN SubmitJobs(@, 1) ELSE @,
                              !.done = IF first THEN @ \cup quick ELSE @]
        checked == [entered EXCEPT !.polled = @ \cup {k}]
        pulled == [checked EXCEPT !.local_dir = TRUE]
    IN  IF k \notin 1..n
        THEN [state |-> entered, cycle |-> Cycle(st, subs, FALSE, snap, "KeyError")]
        ELSE IF ~StageComplete(k, entered.done)
        THEN [state |-> entered, cycle |-> Cycle(st, subs, FALSE, snap, "returned")]
        ELSE IF ~pull_ok
        THEN [state |-> TransferFailed(checked),
              cycle |-> Cycle(st, subs, FALSE, snap, "TransferError")]
        ELSE IF QueryValue("encountered_error", snap)
        THEN [state |-> [pulled EXCEPT !.local_dir = FALSE, !.status = FAILED],
              cycle |-> Cycle(st, subs, TRUE, snap, "returned")]
        ELSE IF QueryValue("is_complete", snap)
        THEN [state |-> [pulled EXCEPT !.local_dir = FALSE, !.status = SUCCEEDED,
                                       !.logs_removed = @ \/ ~keep],
              cycle |-> Cycle(st, subs, TRUE, snap, "returned")]
        ELSE IF QueryValue("is_running", snap)
        THEN IF k + 1 \in 1..n
             THEN [state |-> [pulled EXCEPT !.stage = k + 1,
                                            !.submitted = SubmitJobs(@, k + 1)],
                   cycle |-> Cycle(st, subs \cup {k + 1}, TRUE, snap, "returned")]
             ELSE [state |-> [pulled EXCEPT !.stage = k + 1],
                   cycle |-> Cycle(st, subs, TRUE, snap, "KeyError")]
        ELSE [state |-> [pulled EXCEPT !.status = ABORTED],
              cycle |-> Cycle(st, subs, TRUE, snap, "returned")]

\* The fields of the pipeline instance and what it has done on the server.
PipelineState ==
    [stage |-> pipeline_stage, status |-> pipeline_status, submitted |-> submitted,
     done |-> done, polled |-> polled, local_dir |-> local_dir,
     logs_removed |-> logs_removed]

\* The manager process calls runtime_cycle.
runtime_cycle(quick, pull_ok) ==
    /\ (pipeline_stage # 0 => quick = {})
    /\ LET r == RuntimeCycle(stages, keep_job_logs, PipelineState, remote, quick, pull_ok)
       IN  /\ pipeline_stage' = r.state.stage
           /\ pipeline_status' = r.state.status
           /\ submitted' = r.state.submitted
           /\ done' = r.state.done
           /\ polled' = r.state.polled
           /\ local_dir' = r.state.local_dir
           /\ logs_removed' = r.state.logs_removed
           /\ cycle' = r.cycle
    /\ UNCHANGED <<stages, keep_job_logs, pipeline_manager, remote>>
    /\ UNCHANGED nonPipelineVars

\* A submitted job leaves the scheduler (it ended, failed or was killed):
\* job_complete returns True for it from now on.
job_ends(j) ==
    /\ submitted[j] > 0
    /\ j \notin done
    /\ done' = done \cup {j}
    /\ UNCHANGED <<stages, keep_job_logs, pipeline_manager, pipeline_status, pipeline_stage, submitted,
                   polled, remote, local_dir, logs_removed, cycle>>
    /\ UNCHANGED nonPipelineVars

\* A process on the server (a job of this pipeline or any other manager's)
\* calls start, stop, error or abort on the remote tracker file.
remote_tracker_call(c) ==
    /\ LET b == Body(c, remote)
       IN  remote' = IF b.save THEN b.attrs ELSE remote
    /\ remote' # remote
    /\ UNCHANGED <<stages, keep_job_logs, pipeline_manager, pipeline_status, pipeline_stage, submitted,
                   done, polled, local_dir, logs_removed, cycle>>
    /\ UNCHANGED nonPipelineVars

PipelineInit ==
    /\ TrackerIdle
    /\ SessionLockInit
    /\ ToolsIdle
    /\ WorkingDirectoryUnset
    /\ \E n \in StageNumbers, keep \in BOOLEAN, m \in 1..MaxManager : PipelineNew(n, keep, m)

PipelineNext ==
    \/ \E quick \in SUBSET JobsOfStage(1), pull_ok \in BOOLEAN : runtime_cycle(quick, pull_ok)
    \/ \E j \in AllJobs : job_ends(j)
    \/ \E c \in RaceCalls : remote_tracker_call(c)

PipelineSpec == PipelineInit /\ [][PipelineNext]_vars

(* ---- HappySpec, JobsSpec: the jobs of the pipeline report to the tracker ---- *)

\* The file after call c is made on a tracker file holding t: what the call
\* saved, or t itself when the call raised or returned early.
RemoteAfter(c, t) == LET b == Body(c, t) IN IF b.save THEN b.attrs ELSE t

\* The number of jobs of the graph: the job_count the jobs pass to start.
TotalJobs == stages * StageJobs

\* A job that does its work: it calls start (a no-op when the tracker already
\* runs under its manager) and, at its end, stop.
AfterJob(t, m, total) ==
    RemoteAfter(Call("stop", m, 0), RemoteAfter(Call("start", m, total), t))

\* A job that fails: start, then error.
AfterFailedJob(t, m, total) ==
    RemoteAfter(Call("error", m, 0), RemoteAfter(Call("start", m, total), t))

RECURSIVE AfterJobs(_, _, _, _)
AfterJobs(t, m, total, n) ==
    IF n = 0 THEN t ELSE AfterJobs(AfterJob(t, m, total), m, total, n - 1)

\* runtime_cycle while the jobs work: the jobs in quick (jobs of stage 1, on
\* the first call) do their work and leave the scheduler between their
\* submission and the poll; the pull succeeds.
working_cycle(quick) ==
    /\ (pipeline_stage # 0 => quick = {})
    /\ LET snap == AfterJobs(remote, pipeline_manager, TotalJobs, Cardinality(quick))
           r == RuntimeCycle(stages, keep_job_logs, PipelineState, snap, quick, TRUE)
       IN  /\ pipeline_stage' = r.state.stage
           /\ pipeline_status' = r.state.status
           /\ submitted' = r.state.submitted
           /\ done' = r.state.done
           /\ polled' = r.state.polled
           /\ local_dir' = r.state.local_dir
           /\ logs_removed' = r.state.logs_removed
           /\ cycle' = r.cycle
           /\ remote' = snap
    /\ UNCHANGED <<stages, keep_job_logs, pipeline_manager>>
    /\ UNCHANGED nonPipelineVars

\* A submitted job does its work, reports stop and leaves the scheduler.
job_succeeds(j) ==
    /\ submitted[j] > 0
    /\ j \notin done
    /\ done' = done \cup {j}
    /\ remote' = AfterJob(remote, pipeline_manager, TotalJobs)
    /\ UNCHANGED <<stages, keep_job_logs, pipeline_manager, pipeline_status,
                   pipeline_stage, submitted, polled, local_dir, logs_removed, cycle>>
    /\ UNCHANGED nonPipelineVars

\* A submitted job fails, reports error and leaves the scheduler.
job_fails(j) ==
    /\ submitted[j] > 0
    /\ j \notin done
    /\ done' = done \cup {j}
    /\ remote' = AfterFailedJob(remote, pipeline_manager, TotalJobs)
    /\ UNCHANGED <<stages, keep_job_logs, pipeline_manager, pipeline_status,
                   pipeline_stage, submitted, polled, local_dir, logs_removed, cycle>>
    /\ UNCHANGED nonPipelineVars

\* The manager calls runtime_cycle (every job works).
HappyCall == \E quick \in SUBSET JobsOfStage(1) : working_cycle(quick)

HappyNext ==
    \/ HappyCall
    \/ \E j \in AllJobs : job_succeeds(j)

\* The manager keeps calling runtime_cycle, and every submitted job ends.
HappyFair ==
    /\ WF_vars(HappyCall)
    /\ \A j \in AllJobs : WF_vars(job_succeeds(j))

HappySpec == PipelineInit /\ [][HappyNext]_vars /\ HappyFair

\* The manager calls runtime_cycle (jobs work, fail or are killed; no
\* transfer error).
JobsCall ==
    \E quick \in SUBSET JobsOfStage(1) : working_cycle(quick) \/ runtime_cycle(quick, TRUE)

\* Job j leaves the scheduler in one of the three ways.
JobLeaves(j) == job_succeeds(j) \/ job_fails(j) \/ job_ends(j)

JobsNext ==
    \/ \E quick \in SUBSET JobsOfStage(1) : working_cycle(quick)
    \/ \E quick \in SUBSET JobsOfStage(1) : runtime_cycle(quick, TRUE)
    \/ \E j \in AllJobs : job_succeeds(j)
    \/ \E j \in AllJobs : job_fails(j)
    \/ \E j \in AllJobs : job_ends(j)

JobsFair ==
    /\ WF_vars(JobsCall)
    /\ \A j \in AllJobs : WF_vars(JobLeaves(j))

JobsSpec == PipelineInit /\ [][JobsNext]_vars /\ JobsFair

(* --- EarlierRunSpec: a tracker file left by an earlier run, silent jobs -- *)

\* What an earlier run of the pipeline can have left in the tracker file on the
\* server: nothing, a completed run, a failed run.
EarlierRuns == {DefaultTracker, Stopped(1), Failed(1, 1)}

\* A pipeline instance constructed while the tracker file holds t.
PipelineAfter(n, keep, m, t) ==
    /\ stages = n
    /\ keep_job_logs = keep
    /\ pipeline_manager = m
    /\ pipeline_status = RUNNING
    /\ pipeline_stage = 0
    /\ submitted = [j \in AllJobs |-> 0]
    /\ done = {}
    /\ polled = {}
    /\ remote = t
    /\ local_dir = TRUE
    /\ logs_removed = FALSE
    /\ cycle = NoCycle

EarlierRunInit ==
    /\ TrackerIdle
    /\ SessionLockInit
    /\ ToolsIdle
    /\ WorkingDirectoryUnset
    /\ \E n \in StageNumbers, keep \in BOOLEAN, m \in 1..MaxManager, t \in EarlierRuns :
          PipelineAfter(n, keep, m, t)

\* The jobs of this run leave the scheduler without ever calling the tracker,
\* and nobody else writes the tracker file.
EarlierRunNext ==
    \/ \E quick \in SUBSET JobsOfStage(1), pull_ok \in BOOLEAN : runtime_cycle(quick, pull_ok)
    \/ \E j \in AllJobs : job_ends(j)

EarlierRunSpec == EarlierRunInit /\ [][EarlierRunNext]_vars

(* ----- ToolsSpec: prepare_session, archive_session, reset_trackers ------ *)

\* prepare_session starts and stops the preparation tracker and resets the
\* archiving tracker; archive_session is its inverse.
Tools == {"prepare_session", "archive_session"}
OwnTracker(fn) == IF fn = "prepare_session" THEN "preparation" ELSE "archiving"
OtherTracker(fn) == IF fn = "prepare_session" THEN "archiving" ELSE "preparation"

\* What the body between start and stop came to: the transfer was not needed,
\* raised in the first transfer, raised after the first transfer, or ran through.
BodyOutcomes == {"skipped", "raised_early", "raised_late", "transferred"}

\* A call on tracker file k through the instance a function made for it.  The
\* instance holds the dataclass defaults until its first call, and the file
\* exists from then on.
TrackerCall(k, c) ==
    Run(tracker_files[k].exists, tracker_files[k].disk, DefaultTracker, c)

\* The tracker files after the call with result r on file k.
Touched(files, k, r) ==
    [files EXCEPT ![k] = [exists |-> r.after.exists, disk |-> r.after.disk]]

\* The tracker files after a query on each of them.
Queried(files) ==
    [k \in TrackerNames |->
        LET r == Run(files[k].exists, files[k].disk, DefaultTracker, Call("is_complete", 0, 0))
        IN [exists |-> r.after.exists, disk |-> r.after.disk]]

\* Variant of ResetOther: the other tracker is read and left as it is.
ResetOtherSkipped(k, manager_id) == TrackerCall(k, Call("is_complete", 0, 0))

\* archive_tracker.abort() in prepare_session, preparation_tracker.abort() in
\* archive_session: called whatever the other tracker's state.
ResetOther(k, manager_id) == TrackerCall(k, Call("abort", 0, 0))

ToolStep(p, step, raised) ==
    [proc |-> p, fn |-> tools[p].fn, manager_id |-> tools[p].manager_id, step |-> step,
     outcome |-> IF raised THEN "raised" ELSE "returned"]

\* <own tracker>.start(manager_id=manager_id), before the try block: an
\* exception leaves the function at once.
session_start(p, fn, manager_id) ==
    LET r == TrackerCall(OwnTracker(fn), Call("start", manager_id, DefaultJobCount)) IN
    /\ tools[p].pc = "idle"
    /\ tracker_files' = Touched(tracker_files, OwnTracker(fn), r)
    /\ tools' = [tools EXCEPT ![p] = IF r.raise THEN NoTool
                                     ELSE [fn |-> fn, manager_id |-> manager_id, pc |-> "body"]]
    /\ tool_last' = [proc |-> p, fn |-> fn, manager_id |-> manager_id, step |-> "start",
                     outcome |-> IF r.raise THEN "raised" ELSE "returned"]
    /\ UNCHANGED nonToolsVars

\* The transfers between start and stop.  prepare_session reads
\* archive_tracker.is_complete once the first transfer is through.
session_body(p, outcome) ==
    /\ tools[p].pc = "body"
    /\ tracker_files' =
          IF tools[p].fn = "prepare_session" /\ outcome \in {"raised_late", "transferred"}
          THEN Touched(tracker_files, "archiving",
                       TrackerCall("archiving", Call("is_complete", 0, 0)))
          ELSE tracker_files
    /\ tools' = [tools EXCEPT ![p].pc = IF outcome \in {"skipped", "transferred"}
                                        THEN "stop" ELSE "finally"]
    /\ tool_last' = ToolStep(p, "body", outcome \notin {"skipped", "transferred"})
    /\ UNCHANGED nonToolsVars

\* <own tracker>.stop(manager_id=manager_id)
session_stop(p) ==
    LET r == TrackerCall(OwnTracker(tools[p].fn), Call("stop", tools[p].manager_id, 0)) IN
    /\ tools[p].pc = "stop"
    /\ tracker_files' = Touched(tracker_files, OwnTracker(tools[p].fn), r)
    /\ tools' = [tools EXCEPT ![p].pc = IF r.raise THEN "finally" ELSE "abort"]
    /\ tool_last' = ToolStep(p, "stop", r.raise)
    /\ UNCHANGED nonToolsVars

\* <other tracker>.abort()
session_abort(p) ==
    LET k == OtherTracker(tools[p].fn) IN
    /\ tools[p].pc = "abort"
    /\ tracker_files' = Touched(tracker_files, k, ResetOther(k, tools[p].manager_id))
    /\ tools' = [tools EXCEPT ![p].pc = "finally"]
    /\ tool_last' = ToolStep(p, "abort", FALSE)
    /\ UNCHANGED nonToolsVars

\* finally: if <own tracker>.is_running:
session_finally(p) ==
    LET r == TrackerCall(OwnTracker(tools[p].fn), Call("is_running", 0, 0)) IN
    /\ tools[p].pc = "finally"
    /\ tracker_files' = Touched(tracker_files, OwnTracker(tools[p].fn), r)
    /\ tools' = [tools EXCEPT ![p].pc = IF r.after.attrs.running THEN "error" ELSE "manifest"]
    /\ tool_last' = ToolStep(p, "finally", FALSE)
    /\ UNCHANGED nonToolsVars

\* <own tracker>.error(manager_id=manager_id); an exception leaves the function
\* before the manifest is generated.
session_error(p) ==
    LET r == TrackerCall(OwnTracker(tools[p].fn), Call("error", tools[p].manager_id, 0)) IN
    /\ tools[p].pc = "error"
    /\ tracker_files' = Touched(tracker_files, OwnTracker(tools[p].fn), r)
    /\ tools' = [tools EXCEPT ![p] = IF r.raise THEN NoTool ELSE [@ EXCEPT !.pc = "manifest"]]
    /\ tool_last' = ToolStep(p, "error", r.raise)
    /\ UNCHANGED nonToolsVars

\* generate_project_manifest reads is_complete of both trackers; the function
\* then returns.
session_manifest(p) ==
    /\ tools[p].pc = "manifest"
    /\ tracker_files' = Queried(tracker_files)
    /\ tools' = [tools EXCEPT ![p] = NoTool]
    /\ tool_last' = ToolStep(p, "manifest", FALSE)
    /\ UNCHANGED nonToolsVars

\* reset_trackers: abort() on each requested tracker whose file exists, then the
\* manifest.
reset_trackers(trackers) ==
    /\ tracker_files' =
          Queried([k \in TrackerNames |->
                      IF k \in trackers /\ tracker_files[k].exists
                      THEN [exists |-> TRUE, disk |-> AbortBody(tracker_files[k].disk).attrs]
                      ELSE tracker_files[k]])
    /\ tool_last' = [proc |-> 0, fn |-> "reset_trackers", manager_id |-> NoManager,
                     step |-> "abort", outcome |-> "returned"]
    /\ UNCHANGED <<tools, nonToolsVars>>

ToolsNext ==
    \/ \E p \in ToolProcs, fn \in Tools, m \in 1..MaxManager : session_start(p, fn, m)
    \/ \E p \in ToolProcs, outcome \in BodyOutcomes : session_body(p, outcome)
    \/ \E p \in ToolProcs : session_stop(p)
    \/ \E p \in ToolProcs : session_abort(p)
    \/ \E p \in ToolProcs : session_finally(p)
    \/ \E p \in ToolProcs : session_error(p)
    \/ \E p \in ToolProcs : session_manifest(p)
    \/ \E trackers \in SUBSET TrackerNames : reset_trackers(trackers)

ToolsSpec == Init /\ [][ToolsNext]_vars

\* SessionsSpec: runs of prepare_session and archive_session only, nobody calls
\* reset_trackers.
SessionsNext ==
    \/ \E p \in ToolProcs, fn \in Tools, m \in 1..MaxManager : session_start(p, fn, m)
    \/ \E p \in ToolProcs, outcome \in BodyOutcomes : session_body(p, outcome)
    \/ \E p \in ToolProcs : session_stop(p)
    \/ \E p \in ToolProcs : session_abort(p)
    \/ \E p \in ToolProcs : session_finally(p)
    \/ \E p \in ToolProcs : session_error(p)
    \/ \E p \in ToolProcs : session_manifest(p)

SessionsSpec == Init /\ [][SessionsNext]_vars

\* ManagersSpec: as SessionsSpec, with every process a manager of its own: process
\* p passes manager_id p to each function it runs, so that no two executions
\* that overlap share a manager id.
ManagersNext ==
    \/ \E p \in ToolProcs, fn \in Tools : session_start(p, fn, p)
    \/ \E p \in ToolProcs, outcome \in BodyOutcomes : session_body(p, outcome)
    \/ \E p \in ToolProcs : session_stop(p)
    \/ \E p \in ToolProcs : session_abort(p)
    \/ \E p \in ToolProcs : session_finally(p)
    \/ \E p \in ToolProcs : session_error(p)
    \/ \E p \in ToolProcs : session_manifest(p)

ManagersSpec == Init /\ [][ManagersNext]_vars

(* ------- FilesystemSpec: set_working_directory, get_working_directory --- *)

\* str.strip(): the characters of s without the leading and trailing spaces.
RECURSIVE StripLeft(_)
StripLeft(s) == IF s # <<>> /\ Head(s) = " " THEN StripLeft(Tail(s)) ELSE s

RECURSIVE StripRight(_)
StripRight(s) ==
    IF s # <<>> /\ s[Len(s)] = " " THEN StripRight(SubSeq(s, 1, Len(s) - 1)) ELSE s

Strip(s) == StripRight(StripLeft(s))

\* What get_working_directory does with the content of the cache file.
GetWorkingDirectory(content, dirs) ==
    IF content = NoPath
    THEN [outcome |-> "FileNotFoundError", path |-> NoPath]
    ELSE LET working_directory == Strip(content) IN
         IF working_directory \notin dirs
         THEN [outcome |-> "FileNotFoundError", path |-> NoPath]
         ELSE [outcome |-> "returned", path |-> working_directory]

\* set_working_directory(path): makes the directory if needed, writes str(path)
\* to the cache file, and puts the precursor credentials files where missing.
set_working_directory(path) ==
    /\ directories' = directories \cup {path}
    /\ path_file' = path
    /\ credentials' = credentials \cup {path}
    /\ given' = path
    /\ got' = NoGet
    /\ UNCHANGED nonFilesystemVars

\* get_working_directory()
get_working_directory ==
    /\ got' = GetWorkingDirectory(path_file, directories)
    /\ UNCHANGED <<path_file, directories, credentials, given, nonFilesystemVars>>

\* A directory is made outside the library.
make_directory(path) ==
    /\ path \notin directories
    /\ directories' = directories \cup {path}
    /\ got' = NoGet
    /\ UNCHANGED <<path_file, credentials, given, nonFilesystemVars>>

\* A directory is deleted with everything in it.
remove_directory(path) ==
    /\ path \in directories
    /\ directories' = directories \ {path}
    /\ credentials' = credentials \ {path}
    /\ got' = NoGet
    /\ UNCHANGED <<path_file, given, nonFilesystemVars>>

FilesystemNext ==
    \/ \E path \in Paths : set_working_directory(path)
    \/ get_working_directory
    \/ \E path \in Paths : make_directory(path)
    \/ \E path \in Paths : remove_directory(path)

FilesystemSpec == Init /\ [][FilesystemNext]_vars

(* ======================= ProcessingTracker claims ====================== *)

\* In Spec every step that is not a stuttering step is one method call, and
\* last' names that call, its outcome and its return value.
Ran(op) == last'.call.op = op

\* The attributes an abort or a first touch persists, written out.
IdleSnapshot ==
    [running |-> FALSE, manager_id |-> -1, complete |-> FALSE,
     encountered_error |-> FALSE, job_count |-> 1, completed_jobs |-> 0]

\* C1 (Spec).  Single writer: while the file says the pipeline runs under manager
\* A, start(B, n) with B # A raises and leaves the file as it is; and the run
\* under A ends (running cleared or owner changed) only by a stop or an error
\* from A or by an abort.
C1_SingleWriter ==
    [][/\ (file_exists /\ file.running /\ Ran("start")
             /\ last'.call.manager_id # file.manager_id)
          => (last'.outcome = "RuntimeError" /\ file_exists' /\ file' = file)
       /\ (file_exists /\ file.running
             /\ (~file'.running \/ file'.manager_id # file.manager_id))
          => \/ Ran("abort")
             \/ /\ (Ran("stop") \/ Ran("error"))
                /\ last'.call.manager_id = file.manager_id]_vars

\* C1 witness: a start by a manager other than the owner has just been refused.
C1_Witness ==
    /\ last.call.op = "start"
    /\ last.outcome = "RuntimeError"
    /\ file.running
    /\ file.manager_id \in 1..MaxManager
    /\ last.call.manager_id \in 1..MaxManager
    /\ last.call.manager_id # file.manager_id

\* The race of C2: exactly processes p and q call start, with distinct manager
\* ids, on a tracker that is not running.
RacingStarts(p, q) ==
    /\ p # q
    /\ plan[p].op = "start"
    /\ plan[q].op = "start"
    /\ plan[p].manager_id # plan[q].manager_id
    /\ \A r \in Procs \ {p, q} : plan[r] = NoCall
    /\ ~origin.running

\* C2 (RaceSpec).  Racing starts are linearized: in every interleaving of the two
\* calls' steps at most one start returns and at most one raises, a start that
\* has returned is the persisted owner, and once both calls have ended exactly
\* one has returned and the other has raised.
C2_RacingStartsLinearized ==
    \A p, q \in Procs : RacingStarts(p, q) =>
        /\ ~(res[p] = "returned" /\ res[q] = "returned")
        /\ ~(res[p] = "RuntimeError" /\ res[q] = "RuntimeError")
        /\ res[p] = "returned"
           => (file_exists /\ file.running /\ file.manager_id = plan[p].manager_id)
        /\ (pc[p] = "done" /\ pc[q] = "done")
           => {res[p], res[q]} = {"returned", "RuntimeError"}

\* C2 witness: a race of two starts has ended.
C2_Witness ==
    \E p, q \in Procs :
        /\ RacingStarts(p, q)
        /\ pc[p] = "done" /\ pc[q] = "done"
        /\ res[p] = "returned" /\ res[q] = "RuntimeError"

\* The processes that make a call in the race, and those whose call has saved.
Workers == {p \in Procs : plan[p] # NoCall}
Reported == {p \in Workers : pc[p] \in {"release", "done"}}

\* The scenario of C3: the tracker was started by m with job_count = N >= 1 and
\* exactly N processes each call stop(m) once.
StopRace ==
    /\ origin.running
    /\ origin.job_count = Cardinality(Workers)
    /\ \A p \in Workers : plan[p] = Call("stop", origin.manager_id, 0)

\* C3 (RaceSpec).  No completion report is lost: the persisted counter equals the
\* number of stop calls that have executed; until the N-th has executed the file
\* says running and not complete; after it the file says completed_jobs = N,
\* complete, not running, unowned; and no stop raises.
C3_NoLostReport ==
    StopRace =>
        /\ file.completed_jobs = Cardinality(Reported)
        /\ \A p \in Workers : res[p] # "RuntimeError"
        /\ IF Cardinality(Reported) < origin.job_count
           THEN file.running /\ ~file.complete /\ file.manager_id = origin.manager_id
           ELSE /\ file.completed_jobs = origin.job_count
                /\ file.complete
                /\ ~file.running
                /\ file.manager_id = -1

\* C3 witness: two or more workers have all reported and the run is complete.
C3_Witness ==
    /\ StopRace
    /\ Cardinality(Workers) >= 2
    /\ \A p \in Workers : pc[p] = "done"
    /\ file.complete

\* C4 (Spec), as claimed: in every persisted state the owner differs from -1
\* exactly when the running flag is set.  start(-1, n) breaks it.
C4_OwnerIffRunning ==
    file_exists => (file.manager_id # -1 <=> file.running)

\* C5 (Spec).  In every persisted state at most one of the running, complete and
\* error flags is set, and the state with no flag set is unowned.
C5_OneStatus ==
    file_exists =>
        /\ ~(file.running /\ file.complete)
        /\ ~(file.running /\ file.encountered_error)
        /\ ~(file.complete /\ file.encountered_error)
        /\ (~file.running /\ ~file.complete /\ ~file.encountered_error)
           => file.manager_id = -1

\* C5 witness: an error report has ended a run that had recorded a completion.
C5_Witness ==
    /\ last.call.op = "error"
    /\ file.encountered_error
    /\ file.completed_jobs > 0

\* C6 (Spec), as claimed: completed_jobs <= job_count in every persisted state,
\* and complete only with completed_jobs = job_count.  start(m, 0), stop(m)
\* breaks it.
C6_CompletedWithinCount ==
    file_exists =>
        /\ file.completed_jobs <= file.job_count
        /\ file.complete => file.completed_jobs = file.job_count

\* A step that turns the persisted complete flag on.
TurnsComplete == ~file.complete /\ file'.complete

C8_IdempotentStart ==
    [][(file_exists /\ file.running /\ Ran("start")
          /\ last'.call.manager_id = file.manager_id)
       => (last'.outcome = "returned" /\ file_exists' /\ file' = file)]_vars

\* C8 witness: the owner has called start again, with another job count, after a
\* recorded stop, and the counters are as they were.
C8_Witness ==
    /\ last.call.op = "start"
    /\ last.outcome = "returned"
    /\ file.running
    /\ last.call.manager_id = file.manager_id
    /\ file.completed_jobs = 1
    /\ last.call.job_count # file.job_count

\* C9 (Spec).  Abort overrides ownership: whatever the state before, the step of
\* an abort returns without error and persists exactly the default snapshot.
C9_AbortResets ==
    [][Ran("abort")
       => (last'.outcome = "returned" /\ file_exists' /\ file' = IdleSnapshot)]_vars

\* C9 witness: an abort has reset the file while the other instance still holds
\* the attributes of the run under manager 1 that it cut short.
C9_Witness ==
    /\ last.call.op = "abort"
    /\ file = IdleSnapshot
    /\ \E q \in Callers : mem[q].running /\ mem[q].manager_id = 1
                          /\ mem[q].completed_jobs = 1

\* C10 (Spec).  Queries read the file: a query returns without error the flag of
\* the snapshot on file, whatever attributes the querying instance held, and an
\* existing file is left as it is.
C10_QueriesReadFile ==
    [][last'.call.op \in Queries
       => /\ last'.outcome = "returned"
          /\ file_exists'
          /\ last'.value = QueryValue(last'.call.op, file')
          /\ file_exists => file' = file]_vars

\* C10 witness: after start(1, 2) and one stop(1), is_running returns TRUE with
\* completed_jobs = 1 on file, to an instance whose attributes were out of date.
C10_Witness ==
    /\ last.call.op = "is_running"
    /\ last.stale
    /\ last.value = TRUE
    /\ file.manager_id = 1
    /\ file.job_count = 2
    /\ file.completed_jobs = 1

\* C11 (RemovalSpec), as claimed, observed through the queries, whose only logic
\* is the load: a query that finds the file absent persists the all-default
\* snapshot and returns its flag, FALSE.  An instance that held the attributes
\* of a run before the file was removed breaks it.
C11_FirstTouchDefaults ==
    [][(~file_exists /\ last'.call.op \in Queries)
       => (file_exists' /\ file' = IdleSnapshot /\ last'.value = FALSE)]_vars

\* C12 (Spec).  Ownership gate: while the file says the pipeline runs under
\* manager A, stop(B) and error(B) with B # A raise and leave the file as it is.
C12_OwnershipGate ==
    [][(file_exists /\ file.running /\ (Ran("stop") \/ Ran("error"))
          /\ last'.call.manager_id # file.manager_id)
       => (last'.outcome = "RuntimeError" /\ file_exists' /\ file' = file)]_vars

\* C12 witness: an error report from manager 2 has just been refused while the
\* pipeline runs under manager 1 with one of two completions recorded.
C12_Witness ==
    /\ last.call.op = "error"
    /\ last.call.manager_id = 2
    /\ last.outcome = "RuntimeError"
    /\ file.running
    /\ file.manager_id = 1
    /\ file.completed_jobs = 1
    /\ ~file.encountered_error

\* C13 (Spec).  A finished attempt never blocks the next one: on a tracker that
\* is not running (new, idle, completed or errored), start(m, n) returns without
\* error and persists running, owner m, no flag, job_count n, completed_jobs 0.
C13_StartAfterFinish ==
    [][((~file_exists \/ ~file.running) /\ Ran("start"))
       => /\ last'.outcome = "returned"
          /\ file_exists'
          /\ file' = [running |-> TRUE, manager_id |-> last'.call.manager_id,
                      complete |-> FALSE, encountered_error |-> FALSE,
                      job_count |-> last'.call.job_count, completed_jobs |-> 0]]_vars

\* C13 witness: manager 2 has started a run while the other instance still holds
\* the completed run of manager 1's predecessor (complete, one job of one).
C13_Witness ==
    /\ last.call.op = "start"
    /\ last.outcome = "returned"
    /\ last.stale
    /\ file.running
    /\ file.manager_id = 2
    /\ \E q \in Callers : mem[q].complete /\ mem[q].job_count = 1
                          /\ mem[q].completed_jobs = 1

\* The SessionLock method of the step just taken.
LockRan(op) == lock_last'.op = op

\* The owner the lock file records; a lock whose file was never written is unlocked.
PersistedOwner == IF lock_file_exists THEN lock_file ELSE NoManager

\* C14 (LockSpec).  Mutual exclusion among manager processes (ids other than the
\* 'no lock' value -1), since the last force_release: at most one manager has a
\* successful acquire not yet followed by its own release, and it is the owner
\* the file records; acquire(B) while A # B holds the lock raises and leaves A;
\* acquire(A) by the holder returns and leaves the file as it is.
C14_MutualExclusion ==
    [][/\ Cardinality(holders' \ {NoManager}) <= 1
       /\ \A m \in holders' \ {NoManager} : PersistedOwner' = m
       /\ (LockRan("acquire") /\ PersistedOwner # NoManager)
            => /\ lock_last'.outcome =
                    (IF lock_last'.manager_id # PersistedOwner
                     THEN "RuntimeError" ELSE "none")
               /\ PersistedOwner' = PersistedOwner
               /\ holders' \ {NoManager} = holders \ {NoManager}]_vars

\* C14 witness: manager 2's acquire has just been refused while manager 1, which
\* acquired through the other instance, holds the lock.
C14_Witness ==
    /\ lock_last.op = "acquire"
    /\ lock_last.manager_id = 2
    /\ lock_last.outcome = "RuntimeError"
    /\ holders = {1}
    /\ lock_file_exists
    /\ lock_file = 1

\* C15 (LockSpec), as claimed: release(id) on a lock that is unlocked or held by
\* another id raises and leaves the owner; a release that returns leaves the
\* lock unlocked.  release(-1) on an unlocked lock returns without error.
C15_ReleaseOnlyByHolder ==
    [][LockRan("release")
       => /\ (PersistedOwner = NoManager \/ PersistedOwner # lock_last'.manager_id)
               => (lock_last'.outcome = "RuntimeError"
                   /\ PersistedOwner' = PersistedOwner)
          /\ (lock_last'.outcome = "none" => PersistedOwner' = NoManager)]_vars

\* C16 (LockSpec).  check_owner(id) raises (ValueError) exactly when the
\* persisted owner differs from id, returns otherwise, and never changes the
\* persisted owner.
C16_CheckOwner ==
    [][LockRan("check_owner")
       => /\ lock_last'.outcome =
               (IF PersistedOwner # lock_last'.manager_id THEN "ValueError" ELSE "none")
          /\ PersistedOwner' = PersistedOwner]_vars

\* C16 witness: check_owner(2) has just raised on a lock held by manager 1,
\* called through an instance that had last seen the lock unlocked.
C16_Witness ==
    /\ lock_last.op = "check_owner"
    /\ lock_last.manager_id = 2
    /\ lock_last.outcome = "ValueError"
    /\ lock_file_exists
    /\ lock_file = 1
    /\ holders = {1}
    /\ lock_mem[lock_last.proc] = 1

(* ======================= ProcessingPipeline claims ===================== *)

\* The stage whose jobs the most recent runtime_cycle call polled: a call
\* entered at stage 0 moves to stage 1 before it polls.
PolledStage == IF cycle.entry_stage = 0 THEN 1 ELSE cycle.entry_stage

\* The step submits a job of stage k.
Submits(k) == \E j \in JobsOfStage(k) : submitted'[j] > submitted[j]

C18_StageOrdering ==
    [][\A k \in StageNumbers :
          (k > 1 /\ Submits(k))
          => /\ \A i \in 1..(k - 1) : JobsOfStage(i) \subseteq done' /\ i \in polled'
             /\ cycle'.pulled
             /\ ~cycle'.snapshot.encountered_error]_vars

\* C18 witness: a call entered at stage 1 found both jobs of stage 1 terminal,
\* pulled a running snapshot and submitted stage 2, whose jobs are still queued.
C18_Witness ==
    /\ cycle.entry_stage = 1
    /\ cycle.submits = {2}
    /\ cycle.pulled
    /\ pipeline_stage = 2
    /\ pipeline_status = RUNNING
    /\ JobsOfStage(1) \subseteq done
    /\ \A j \in JobsOfStage(2) : submitted[j] = 1 /\ j \notin done

\* C19 (PipelineSpec), as claimed: the status becomes SUCCEEDED only in a call
\* whose current stage is the last stage of the graph.  The code sets SUCCEEDED
\* whenever the snapshot is complete, at any stage.
C19_SuccessAtLastStage ==
    [][(pipeline_status # SUCCEEDED /\ pipeline_status' = SUCCEEDED)
       => pipeline_stage' = stages]_vars

\* C20 (PipelineSpec), as claimed: when the most recent call polled the final
\* stage and pulled a snapshot that is running, not complete and without
\* error, the pipeline is FAILED.  The code moves the cursor past the graph
\* and raises KeyError with the status still RUNNING.
C20_DisagreementFails ==
    (/\ cycle.pulled
     /\ PolledStage = stages
     /\ cycle.snapshot.running
     /\ ~cycle.snapshot.complete
     /\ ~cycle.snapshot.encountered_error)
    => pipeline_status = FAILED

\* C21 (PipelineSpec), as claimed: the call made at stage 0 submits exactly
\* stage 1, leaves the stage at 1 and returns without pulling the tracker or
\* changing the status.  The code does not return after the submission: when
\* the stage-1 jobs are already terminal it goes on to pull and to decide.
C21_FirstCallOnlySubmits ==
    [][(pipeline_stage = 0 /\ pipeline_stage' # 0)
       => /\ cycle'.submits = {1}
          /\ \A j \in AllJobs : submitted'[j] = IF j \in JobsOfStage(1) THEN 1 ELSE 0
          /\ pipeline_stage' = 1
          /\ cycle'.outcome = "returned"
          /\ ~cycle'.pulled
          /\ polled' = {}
          /\ pipeline_status' = pipeline_status]_vars

\* A step of PipelineSpec that is a runtime_cycle call (or no step at all):
\* the scheduler and the remote tracker stand still.
CallStep == done' = done /\ remote' = remote

\* C22 (PipelineSpec).  Cooperative yield: a call made at a stage k >= 1 of
\* the graph while a job of stage k is not scheduler-terminal returns and
\* changes nothing: status, stage, submissions, local directory, remote logs;
\* it does not pull the tracker.
C22_CooperativeYield ==
    [][(/\ CallStep
        /\ pipeline_stage \in 1..stages
        /\ ~(JobsOfStage(pipeline_stage) \subseteq done))
       => /\ pipeline_status' = pipeline_status
          /\ pipeline_stage' = pipeline_stage
          /\ submitted' = submitted
          /\ local_dir' = local_dir
          /\ logs_removed' = logs_removed
          /\ polled' = polled
          /\ (cycle' # cycle => (~cycle'.pulled /\ cycle'.submits = {}
                                 /\ cycle'.outcome = "returned"))]_vars

\* C22 witness: a call entered at stage 1 has just returned with one of the
\* two jobs of stage 1 terminal and the other still queued or running.
C22_Witness ==
    /\ cycle.entry_stage = 1
    /\ cycle.outcome = "returned"
    /\ ~cycle.pulled
    /\ cycle.submits = {}
    /\ pipeline_stage = 1
    /\ pipeline_status = RUNNING
    /\ \E j \in JobsOfStage(1) : j \in done
    /\ \E j \in JobsOfStage(1) : j \notin done

\* C23 (PipelineSpec), as claimed: once the status is SUCCEEDED, FAILED or
\* ABORTED no step changes the status or the stage or submits a job.  The code
\* has no test of the status: a later call polls, pulls and decides again.
C23_TerminalAbsorbing ==
    [][(pipeline_status \in {SUCCEEDED, FAILED, ABORTED})
       => (/\ pipeline_status' = pipeline_status
           /\ pipeline_stage' = pipeline_stage
           /\ submitted' = submitted)]_vars

C27_TransferErrorKeepsState ==
    [][(CallStep /\ cycle' # cycle /\ cycle'.outcome = "TransferError"
          /\ pipeline_stage >= 1)
       => /\ pipeline_status' = pipeline_status
          /\ pipeline_stage' = pipeline_stage
          /\ submitted' = submitted
          /\ cycle'.submits = {}
          /\ local_dir' = local_dir
          /\ logs_removed' = logs_removed
          /\ RuntimeCycle(stages, keep_job_logs, PipelineState', remote', {}, TRUE).state
               = RuntimeCycle(stages, keep_job_logs, PipelineState, remote, {}, TRUE).state]_vars

\* C27 witness: the pull of a call entered at stage 1 of 2 has just failed,
\* with both jobs of stage 1 terminal and the remote tracker running: stage 2
\* is not submitted and the pipeline is still RUNNING at stage 1.
C27_Witness ==
    /\ cycle.outcome = "TransferError"
    /\ cycle.entry_stage = 1
    /\ stages = 2
    /\ pipeline_stage = 1
    /\ pipeline_status = RUNNING
    /\ JobsOfStage(1) \subseteq done
    /\ remote.running
    /\ \A j \in JobsOfStage(2) : submitted[j] = 0

(* =================== ProcessingTracker claims, continued ================ *)

\* C30 (Spec).  A finished attempt is terminal: on a tracker that is not
\* running (new, idle, completed or errored) stop(m) and error(m) return
\* without error for every m and leave the persisted fields as they are;
\* the only calls that change them are start and abort.
C30_FinishedIsTerminal ==
    [][(~file_exists \/ ~file.running)
       => /\ ((Ran("stop") \/ Ran("error"))
                => (last'.outcome = "returned" /\ file' = file))
          /\ (file' # file => (Ran("start") \/ Ran("abort")))]_vars

\* C30 witness: manager 2 has just reported an error to a tracker completed
\* under another manager (one job of one); the report returned and the tracker
\* is still complete, without the error flag.
C30_Witness ==
    /\ last.call.op = "error"
    /\ last.call.manager_id = 2
    /\ last.outcome = "returned"
    /\ file_exists
    /\ file.complete
    /\ ~file.running
    /\ ~file.encountered_error
    /\ file.completed_jobs = 1

(* ================= ProcessingPipeline claims, liveness ================== *)

\* Every job of the graph has been submitted exactly once, no other job ever.
EachJobOnce == \A j \in AllJobs : submitted[j] = IF j[1] <= stages THEN 1 ELSE 0

\* C25 (HappySpec).  Happy path: when every job does its work and reports
\* stop, and the manager keeps calling, the stages are submitted in the order
\* 1..stages (a stage only when all earlier ones were submitted, each job for
\* the first and only time), and eventually the status is SUCCEEDED for good
\* with every job of the graph submitted exactly once.
C25_HappyPath ==
    /\ [][\A k \in StageNumbers :
            Submits(k)
            => /\ k <= stages
               /\ \A j \in AllJobs :
                     /\ (j[1] < k => submitted'[j] = 1)
                     /\ (j[1] = k => (submitted[j] = 0 /\ submitted'[j] = 1))
                     /\ (j[1] > k + 1 => submitted'[j] = 0)]_vars
    /\ <>[](pipeline_status = SUCCEEDED /\ EachJobOnce)

\* C25 witness: a two-stage pipeline has reached SUCCEEDED in a call entered
\* at stage 2, every job submitted once and all four stop reports counted.
C25_Witness ==
    /\ stages = 2
    /\ pipeline_status = SUCCEEDED
    /\ cycle.entry_stage = 2
    /\ cycle.snapshot.complete
    /\ EachJobOnce
    /\ remote.completed_jobs = TotalJobs
    /\ done = AllJobs

\* C26 (JobsSpec), as claimed: whatever the jobs do (stop, error, killed), if
\* the manager keeps calling and every submitted job leaves the scheduler, no
\* call ends with an internal error and the status eventually is SUCCEEDED,
\* FAILED or ABORTED.  A last-stage job killed while the tracker runs makes
\* the call raise KeyError and the status stay RUNNING for ever.
C26_ReachesTerminal ==
    /\ [](cycle.outcome # "KeyError")
    /\ <>(pipeline_status \in {SUCCEEDED, FAILED, ABORTED})


(* ========================= session tool claims ======================== *)

\* C28: apart from reset_trackers, no operation resets a tracker that is running
\* under a different manager: a step of prepare_session or archive_session run
\* by manager A leaves the running flag and the owner of a tracker that is
\* running under a manager B # A as they are.
C28_NoAutomaticAbort ==
    [][\A k \in TrackerNames :
          ((/\ tracker_files[k].exists
            /\ tracker_files[k].disk.running
            /\ tool_last'.fn \in Tools
            /\ tool_last'.manager_id # tracker_files[k].disk.manager_id)
           => (/\ tracker_files'[k].disk.running
               /\ tracker_files'[k].disk.manager_id = tracker_files[k].disk.manager_id))]_vars


(* ====================== working directory claims ====================== *)

\* C29: get_working_directory returns the path given to the most recent
\* set_working_directory call as long as that directory exists, and raises
\* FileNotFoundError when no call was made or the directory has been deleted.
C29_WorkingDirectoryCache ==
    got # NoGet =>
        IF given # NoPath /\ given \in directories
        THEN got = [outcome |-> "returned", path |-> given]
        ELSE got.outcome = "FileNotFoundError"


(* ===================== pipeline claims, continued ===================== *)

\* C31: the pipeline status becomes SUCCEEDED only through stop calls this
\* pipeline's jobs made after they were submitted.  In EarlierRunSpec the jobs
\* never call the tracker and the file holds what an earlier run left, so the
\* status never becomes SUCCEEDED.
C31_SuccessThisRunOnly == pipeline_status # SUCCEEDED


\* C32: runtime_cycle submits the next stage only when the pulled tracker
\* snapshot shows a run owned by the pipeline's own manager_id: a tracker that
\* runs under another manager id never makes the executor advance or submit.
C32_OwnRunOnly ==
    [][((pipeline_stage # 0) /\ (pipeline_stage' # pipeline_stage \/ submitted' # submitted))
       => (/\ remote.running
           /\ remote.manager_id = pipeline_manager)]_vars


\* C33: for a graph with the stages 1..N the cursor _pipeline_stage stays
\* within 0..N, never decreases, and no lookup jobs[_pipeline_stage] made by
\* runtime_cycle or _submit_jobs is for a stage the graph does not have.
C33_CursorInsideGraph ==
    [][/\ pipeline_stage' >= pipeline_stage
       /\ pipeline_stage' \in 0..stages
       /\ cycle'.outcome # "KeyError"]_vars


\* C34: over the lifetime of a ProcessingPipeline instance, whatever the
\* sequence of runtime_cycle calls and whatever the scheduler and the tracker
\* do, each job of the graph is passed to server.submit_job at most once.
C34_AtMostOnceSubmission == \A j \in AllJobs : submitted[j] <= 1

\* Every job of a two-stage graph was submitted and the manager kept calling:
\* the status is terminal or the cursor has left the graph.
C34_Witness ==
    /\ stages = MaxStages
    /\ \A j \in AllJobs : submitted[j] = 1
    /\ (pipeline_status # RUNNING \/ pipeline_stage > stages)
    /\ cycle.entry_stage = stages


(* ==================== session tool claims, continued =================== *)

\* Process p is done with its own tracker: the finally block found it not
\* running, or called error on it (which returned or raised).
Settles(p) ==
    \/ tools[p].pc = "finally" /\ tools'[p].pc = "manifest"
    \/ tools[p].pc = "error" /\ tools'[p].pc # "error"

\* C35: an execution of prepare_session or archive_session whose start(m)
\* succeeded ends, whether its body returned or raised, with its tracker not
\* running under m, and either complete (the body reached stop) or flagged
\* with an error (it did not).
C35_RunNeverLeftLocked ==
    [][\A p \in ToolProcs :
          Settles(p) =>
             LET t == tracker_files'[OwnTracker(tools[p].fn)].disk IN
             /\ ~(t.running /\ t.manager_id = tools[p].manager_id)
             /\ (t.complete \/ t.encountered_error)]_vars


(* ====================== SessionLock claims, continued ================== *)

\* C36 (LockSpec): for every manager id m, the value -1 included, once
\* acquire(m) has returned the lock is held by m: acquire(m2) by any m2 # m
\* raises until release(m) or force_release() is called.
C36_AcquireTakesLock ==
    [][(LockRan("acquire") /\ (\E m \in holders : m # lock_last'.manager_id))
       => lock_last'.outcome = "RuntimeError"]_vars


(* ==================== session tool claims, continued =================== *)

\* No run of prepare_session or archive_session is in progress.
NoRunInProgress == \A p \in ToolProcs : tools[p] = NoTool

\* C37 (SessionsSpec): under any interleaving of prepare_session and
\* archive_session runs, by the same or by different managers, whenever no run
\* is in progress at most one of the preparation tracker and the archiving
\* tracker reports is_complete.
C37_PreparedXorArchived ==
    NoRunInProgress =>
        ~(/\ tracker_files["preparation"].disk.complete
          /\ tracker_files["archiving"].disk.complete)

\* C37 witness: archive_session has run to its end after a completed
\* prepare_session: the session is archived and no longer prepared.
C37_Witness ==
    /\ NoRunInProgress
    /\ tool_last.fn = "archive_session"
    /\ tool_last.step = "manifest"
    /\ tracker_files["archiving"].disk.complete
    /\ tracker_files["preparation"].exists
    /\ ~tracker_files["preparation"].disk.complete
    /\ tracker_files["preparation"].disk.job_count = DefaultJobCount
    /\ tracker_files["preparation"].disk.completed_jobs = 0

====
